---- MODULE Spec2Model ----
(***************************************************************************)
(* Model of the search page of the AI People Finder                        *)
(* (src/ui/src/app/page.jsx): the React state of                           *)
(* IntelligentCompanyResearchAgent, its event handlers, the asynchronous   *)
(* performIntelligentSearch and the list computed by getFilteredCompanies. *)
(*                                                                         *)
(* JavaScript values are encoded as follows.                               *)
(*   - a string the code inspects (query, industry) is a sequence of       *)
(*     one-character strings; other strings are plain tokens;              *)
(*   - a value that may be null/undefined is None (<<>>) or Some(v)        *)
(*     (<<v>>);                                                            *)
(*   - an array is a sequence.                                             *)
(* Handlers run to completion: one action is one synchronous segment of    *)
(* code between two awaits.                                                *)
(***************************************************************************)
EXTENDS Integers, Sequences, FiniteSets, TLC

VARIABLES query, isSearching, searchProgress, searchResult, viewMode,
          selectedFilters, calls, lastEvent, progressLog, campaigns

vars == <<query, isSearching, searchProgress, searchResult, viewMode,
          selectedFilters, calls, lastEvent, progressLog, campaigns>>

\* The state of the page.
pageVars == <<query, isSearching, searchProgress, searchResult, viewMode,
              selectedFilters, calls, lastEvent, progressLog>>

\* ------------------------------------------------------------------------
\* Bounds
\* ------------------------------------------------------------------------

\* Largest number of candidates one backend run returns.
MaxItems == 2

\* ------------------------------------------------------------------------
\* JavaScript values
\* ------------------------------------------------------------------------

None == <<>>

Some(v) == <<v>>

IsSome(o) == o # <<>>

Get(o) == o[1]

\* String.prototype.toLowerCase on one character of the alphabet in use.
LowerChar(c) ==
  CASE c = "A" -> "a"
    [] c = "B" -> "b"
    [] c = "C" -> "c"
    [] c = "Q" -> "q"
    [] c = "S" -> "s"
    [] OTHER -> c

ToLowerCase(s) == [i \in 1..Len(s) |-> LowerChar(s[i])]

\* String.prototype.includes
Includes(s, sub) ==
  \E i \in 0..(Len(s) - Len(sub)) : SubSeq(s, i + 1, i + Len(sub)) = sub

WhiteSpace == {" ", "\n", "\t"}

RECURSIVE TrimStart(_)
TrimStart(s) ==
  IF s # <<>> /\ Head(s) \in WhiteSpace THEN TrimStart(Tail(s)) ELSE s

RECURSIVE TrimEnd(_)
TrimEnd(s) ==
  IF s # <<>> /\ s[Len(s)] \in WhiteSpace
    THEN TrimEnd(SubSeq(s, 1, Len(s) - 1))
    ELSE s

\* Trim that removes nothing, as in a test `!query` of the untrimmed text.
TrimNone(s) == s

\* String.prototype.trim
Trim(s) == TrimEnd(TrimStart(s))

RECURSIVE SeqMap(_, _)
SeqMap(F(_), s) ==
  IF s = <<>> THEN <<>> ELSE <<F(Head(s))>> \o SeqMap(F, Tail(s))

RECURSIVE SeqFilter(_, _)
SeqFilter(P(_), s) ==
  IF s = <<>> THEN <<>>
  ELSE IF P(Head(s)) THEN <<Head(s)>> \o SeqFilter(P, Tail(s))
  ELSE SeqFilter(P, Tail(s))

Range(s) == {s[i] : i \in DOMAIN s}

\* ------------------------------------------------------------------------
\* The backend behind POST /search-companies.  Its code is not part of the
\* page; it is modelled from the specification (sections 3, 4 and 6).
\* ------------------------------------------------------------------------

\* ToolVocabulary: the canonical tool names, in registry order.
ToolVocabulary == <<"Intercom", "Klaus">>

\* Sizes of the three score bands of ConfidenceScorer (section 4.4).
ToolBand == 50

RoleBand == 25

ContextBand == 25

\* SearchCriteria produced by CriteriaExtractor.
CriteriaSet ==
  { [required_tools |-> <<"Intercom", "Klaus">>,
     job_titles |-> <<"support", "qa">>, strict_matching |-> TRUE],
    [required_tools |-> <<"Intercom", "Klaus">>,
     job_titles |-> <<"support", "qa">>, strict_matching |-> FALSE] }

\* CandidateRecords with the evidence SignalDetector found for them:
\* mentions is the set of detected tools, roleOverlap the number of matched
\* job-title keywords, contextHit whether industry/size/examples match.
CandidatePool ==
  { [rank |-> 1, variant |-> "Person", name |-> "Ann", url |-> "in/ann",
     title |-> Some(<<"S", "a", "a", "S", " ", "Q", "A">>), org |-> "Acme",
     employee_count |-> None, mentions |-> {"Intercom", "Klaus"},
     roleOverlap |-> 2, contextHit |-> 1],
    [rank |-> 2, variant |-> "Person", name |-> "Bob", url |-> "in/bob",
     title |-> None, org |-> "Big",
     employee_count |-> None, mentions |-> {},
     roleOverlap |-> 0, contextHit |-> 0],
    [rank |-> 3, variant |-> "Person", name |-> "Ann", url |-> "in/ann2",
     title |-> Some(<<"b", "2", "c">>), org |-> "Tiny",
     employee_count |-> None, mentions |-> {"Intercom", "Klaus"},
     roleOverlap |-> 0, contextHit |-> 0],
    [rank |-> 4, variant |-> "Company", name |-> "Acme", url |-> "acme.io",
     title |-> Some(<<"B", "2", "C">>), org |-> "Startup",
     employee_count |-> Some(250), mentions |-> {"Intercom", "Klaus"},
     roleOverlap |-> 2, contextHit |-> 1],
    [rank |-> 5, variant |-> "Company", name |-> "Big", url |-> "big.com",
     title |-> Some(<<"s", "a", "a", "s">>), org |-> "Enterprise",
     employee_count |-> Some(5000), mentions |-> {"Klaus"},
     roleOverlap |-> 2, contextHit |-> 1],
    [rank |-> 6, variant |-> "Company", name |-> "Tiny", url |-> "tiny.dev",
     title |-> None, org |-> "Startup",
     employee_count |-> Some(0), mentions |-> {},
     roleOverlap |-> 1, contextHit |-> 1] }

\* num/den rounded to the nearest integer (halves up), den > 0.
RoundDiv(num, den) == (2 * num + den) \div (2 * den)

Clamp(x) == IF x < 0 THEN 0 ELSE IF x > 100 THEN 100 ELSE x

\* The required tools a candidate mentions, in criteria order.
MatchedTools(cand, criteria) ==
  LET Mentioned(t) == t \in cand.mentions
  IN  SeqFilter(Mentioned, criteria.required_tools)

\* ConfidenceScorer.score: the sum of the band contributions, rounded and
\* clamped to 0..100.
Score(cand, criteria) ==
  LET n == Len(criteria.required_tools)
      tool == IF n = 0 THEN 0
              ELSE RoundDiv(ToolBand * Len(MatchedTools(cand, criteria)), n)
      k == Len(criteria.job_titles)
      role == IF k = 0 THEN 0 ELSE RoundDiv(RoleBand * cand.roleOverlap, k)
      context == ContextBand * cand.contextHit
  IN  Clamp(tool + role + context)

\* MatchReasons in evaluation order: tools, then roles, then context.
Reasons(cand, criteria) ==
  MatchedTools(cand, criteria)
    \o (IF cand.roleOverlap > 0 THEN <<"role">> ELSE <<>>)
    \o (IF cand.contextHit > 0 THEN <<"context">> ELSE <<>>)

\* Strict mode: a candidate missing any required tool is excluded.
PassesStrict(cand, criteria) ==
  criteria.strict_matching => Range(criteria.required_tools) \subseteq cand.mentions

\* Aggregator ranking: descending score, then more tool evidence, then the
\* earliest discovered source.
RanksBefore(a, b, criteria) ==
  LET sa == Score(a, criteria)
      sb == Score(b, criteria)
      ma == Cardinality(a.mentions)
      mb == Cardinality(b.mentions)
  IN  \/ sa > sb
      \/ sa = sb /\ ma > mb
      \/ sa = sb /\ ma = mb /\ a.rank < b.rank

RECURSIVE Ranked(_, _)
Ranked(cands, criteria) ==
  IF cands = {} THEN <<>>
  ELSE LET first == CHOOSE a \in cands :
                      \A b \in cands \ {a} : RanksBefore(a, b, criteria)
       IN  <<first>> \o Ranked(cands \ {first}, criteria)

\* Aggregator.aggregate on identities that are already distinct.
Aggregate(found, criteria) ==
  Ranked({c \in found : PassesStrict(c, criteria)}, criteria)

\* The detected tools of a candidate as a list, in vocabulary order.
ToolList(cand) ==
  LET Mentioned(t) == t \in cand.mentions
  IN  SeqFilter(Mentioned, ToolVocabulary)

\* A company item of the response (section 6).
CompanyItem(cand, criteria) ==
  [ id |-> cand.url, name |-> cand.name, industry |-> cand.title,
    company_type |-> cand.org, employee_count |-> cand.employee_count,
    employee_range |-> "Unknown", tools_detected |-> ToolList(cand),
    confidence_score |-> Score(cand, criteria),
    match_reasons |-> Reasons(cand, criteria),
    search_source |-> "web", additional_data |-> None ]

\* A person item of the response; list fields without content are left out.
PersonItem(cand, criteria) ==
  [ linkedin_url |-> cand.url, name |-> cand.name, title |-> cand.title,
    company |-> cand.org,
    experience_indicators |-> IF cand.roleOverlap = Len(criteria.job_titles)
                              THEN Some(<<"senior">>) ELSE None,
    tools_mentioned |-> IF cand.mentions = {} THEN None
                        ELSE Some(ToolList(cand)),
    confidence_score |-> Score(cand, criteria),
    match_reasons |-> IF Reasons(cand, criteria) = <<>> THEN None
                      ELSE Some(Reasons(cand, criteria)),
    search_source |-> "linkedin" ]

\* One row of the table projection.
TableRow(cand, criteria) ==
  [ Name |-> cand.name, Match |-> Score(cand, criteria) ]

\* EventRecorder: the timeline of one run.  Every stage emits its
\* analyzing/searching event on entry and its outcome on completion; a
\* source that times out is recorded as a warning.
RunEvents(timedOut) ==
  << [type |-> "analyzing", stage |-> "extract"],
     [type |-> "success", stage |-> "extract"],
     [type |-> "searching", stage |-> "web"],
     [type |-> "searching", stage |-> "profile"],
     [type |-> "success", stage |-> "web"],
     [type |-> IF timedOut THEN "warning" ELSE "success", stage |-> "profile"] >>

\* ResultShaper: the SearchResult of a run that found the candidates
\* `found`.  A run without person candidates may leave the people list out.
ShapeResult(found, criteria, timedOut, withPeople) ==
  LET ranked == Aggregate(found, criteria)
      IsCompany(c) == c.variant = "Company"
      IsPerson(c) == c.variant = "Person"
      ToCompany(c) == CompanyItem(c, criteria)
      ToPerson(c) == PersonItem(c, criteria)
      ToRow(c) == TableRow(c, criteria)
      persons == SeqMap(ToPerson, SeqFilter(IsPerson, ranked))
  IN  [ companies |-> Some(SeqMap(ToCompany, SeqFilter(IsCompany, ranked))),
        people |-> IF persons # <<>> \/ withPeople THEN Some(persons) ELSE None,
        table_data |-> Some([columns |-> <<"Name", "Match">>,
                             rows |-> SeqMap(ToRow, ranked)]),
        search_summary |-> <<"found">>,
        search_events |-> RunEvents(timedOut),
        search_criteria |-> Some(criteria),
        criteria_matched |-> Len(ranked),
        total_found |-> Cardinality(found),
        execution_time |-> 1,
        success |-> TRUE ]

\* The result of a run aborted by an ExtractionError (section 7).
AbortedResult ==
  [ companies |-> Some(<<>>), people |-> Some(<<>>), table_data |-> None,
    search_summary |-> <<"extraction failed">>,
    search_events |-> << [type |-> "analyzing", stage |-> "extract"],
                         [type |-> "error", stage |-> "extract"] >>,
    search_criteria |-> None,
    criteria_matched |-> 0, total_found |-> 0, execution_time |-> 1,
    success |-> FALSE ]

\* Every body the backend can answer a search with.
Responses ==
  { ShapeResult(found, criteria, timedOut, withPeople) :
      found \in {f \in SUBSET CandidatePool : Cardinality(f) <= MaxItems},
      criteria \in CriteriaSet, timedOut \in BOOLEAN, withPeople \in BOOLEAN }
  \cup {AbortedResult}

\* ------------------------------------------------------------------------
\* The page: constants of the component
\* ------------------------------------------------------------------------

\* Example queries (three of the eight, abbreviated; only their being
\* non-blank matters to the code).
exampleQueries ==
  << <<"Q", "A">>, <<"C", "S", " ", "Q", "A">>, <<"Q", "A", " ">> >>

\* Text the user can type into the query box.
TypedQueries == { <<>>, <<" ", "\n">>, <<" ", "q">> }

\* Quick filter presets.
quickFilters ==
  << [label |-> "High Confidence (80%+)", filter |-> [minConfidence |-> 80]],
     [label |-> "Medium Size (100-500)", filter |-> [employeeRange |-> "100-500"]],
     [label |-> "Large Companies (1000+)", filter |-> [employeeRange |-> "1000+"]],
     [label |-> "SaaS Only", filter |-> [industry |-> <<"s", "a", "a", "s">>]],
     [label |-> "B2C Only", filter |-> [industry |-> <<"b", "2", "c">>]] >>

\* The initial value of selectedFilters, also set by clearFilters.
DefaultFilters == [minConfidence |-> 0, industry |-> <<>>, employeeRange |-> ""]

\* HTTP statuses of a response that is not OK.
ErrorStatuses == {"422", "500"}

\* Bodies of a response that is not OK, as response.json() yields them:
\* kind "unparseable" rejects, "null" is the JSON value null, "object" is an
\* object with or without a detail string.
ErrorBodies ==
  { [kind |-> "unparseable", detail |-> None],
    [kind |-> "null", detail |-> None],
    [kind |-> "object", detail |-> None],
    [kind |-> "object", detail |-> Some("")],
    [kind |-> "object", detail |-> Some("Extraction failed")] }

\* ------------------------------------------------------------------------
\* performIntelligentSearch
\* ------------------------------------------------------------------------

\* person.experience_indicators?.[0] || "Unknown"
FirstExperience(person) ==
  IF IsSome(person.experience_indicators)
     /\ Get(person.experience_indicators) # <<>>
     /\ Get(person.experience_indicators)[1] # ""
  THEN Get(person.experience_indicators)[1]
  ELSE "Unknown"

\* PersonToCompany reading a field the person objects do not have
\* (person.tools_detected), so that every converted item has no tools.
PersonToCompanyWrongToolsField(person) ==
  [ id |-> person.linkedin_url,
    name |-> person.name,
    industry |-> person.title,
    company_type |-> person.company,
    employee_count |-> None,
    employee_range |-> FirstExperience(person),
    tools_detected |-> <<>>,
    confidence_score |-> person.confidence_score,
    match_reasons |-> IF IsSome(person.match_reasons)
                      THEN Get(person.match_reasons) ELSE <<>>,
    search_source |-> person.search_source,
    additional_data |-> Some([ person_name |-> person.name,
                               job_title |-> person.title,
                               company_name |-> person.company,
                               linkedin_url |-> person.linkedin_url,
                               is_person |-> TRUE ]) ]

\* PersonToCompany turning the score into a percentage a second time.
PersonToCompanyScaledScore(person) ==
  [ id |-> person.linkedin_url,
    name |-> person.name,
    industry |-> person.title,
    company_type |-> person.company,
    employee_count |-> None,
    employee_range |-> FirstExperience(person),
    tools_detected |-> IF IsSome(person.tools_mentioned)
                       THEN Get(person.tools_mentioned) ELSE <<>>,
    confidence_score |-> person.confidence_score * 100,
    match_reasons |-> IF IsSome(person.match_reasons)
                      THEN Get(person.match_reasons) ELSE <<>>,
    search_source |-> person.search_source,
    additional_data |-> Some([ person_name |-> person.name,
                               job_title |-> person.title,
                               company_name |-> person.company,
                               linkedin_url |-> person.linkedin_url,
                               is_person |-> TRUE ]) ]

\* PersonToCompany taking the reasons from the tools list.
PersonToCompanyWrongReasons(person) ==
  [ id |-> person.linkedin_url,
    name |-> person.name,
    industry |-> person.title,
    company_type |-> person.company,
    employee_count |-> None,
    employee_range |-> FirstExperience(person),
    tools_detected |-> IF IsSome(person.tools_mentioned)
                       THEN Get(person.tools_mentioned) ELSE <<>>,
    confidence_score |-> person.confidence_score,
    match_reasons |-> IF IsSome(person.tools_mentioned)
                      THEN Get(person.tools_mentioned) ELSE <<>>,
    search_source |-> person.search_source,
    additional_data |-> Some([ person_name |-> person.name,
                               job_title |-> person.title,
                               company_name |-> person.company,
                               linkedin_url |-> person.linkedin_url,
                               is_person |-> TRUE ]) ]

\* The person => ({...}) mapping of data.people.map.
PersonToCompany(person) ==
  [ id |-> person.linkedin_url,
    name |-> person.name,
    industry |-> person.title,
    company_type |-> person.company,
    employee_count |-> None,
    employee_range |-> FirstExperience(person),
    tools_detected |-> IF IsSome(person.tools_mentioned)
                       THEN Get(person.tools_mentioned) ELSE <<>>,
    confidence_score |-> person.confidence_score,
    match_reasons |-> IF IsSome(person.match_reasons)
                      THEN Get(person.match_reasons) ELSE <<>>,
    search_source |-> person.search_source,
    additional_data |-> Some([ person_name |-> person.name,
                               job_title |-> person.title,
                               company_name |-> person.company,
                               linkedin_url |-> person.linkedin_url,
                               is_person |-> TRUE ]) ]

\* `if (data.people) { data.companies = data.people.map(...) }`: an array,
\* empty or not, is truthy.
ConvertPeople(data) ==
  IF IsSome(data.people)
    THEN [data EXCEPT !.companies = Some(SeqMap(PersonToCompany, Get(data.people)))]
    ELSE data

\* ErrorResult without the error event.
ErrorResultNoEvent(message) ==
  [ companies |-> Some(<<>>),
    people |-> Some(<<>>),
    table_data |-> None,
    search_summary |-> <<"Search failed: ", message>>,
    search_events |-> <<>>,
    search_criteria |-> None,
    criteria_matched |-> 0,
    total_found |-> 0,
    execution_time |-> 0,
    success |-> FALSE ]

\* The result object the catch block sets.
ErrorResult(message) ==
  [ companies |-> Some(<<>>),
    people |-> Some(<<>>),
    table_data |-> None,
    search_summary |-> <<"Search failed: ", message>>,
    search_events |-> << [type |-> "error", stage |-> "request"] >>,
    search_criteria |-> None,
    criteria_matched |-> 0,
    total_found |-> 0,
    execution_time |-> 0,
    success |-> FALSE ]

\* The message of the Error thrown for a response that is not OK:
\* errorData.detail || `HTTP error! status: ${response.status}`; reading
\* .detail of null throws a TypeError instead.
HttpErrorMessage(status, body) ==
  IF body.kind = "null" THEN "Cannot read properties of null"
  ELSE IF body.kind = "object" /\ IsSome(body.detail) /\ Get(body.detail) # ""
    THEN Get(body.detail)
  ELSE "HTTP error! status: " \o status

\* ------------------------------------------------------------------------
\* getFilteredCompanies and what the page renders
\* ------------------------------------------------------------------------

\* searchResult?.companies, as a list when present.
HasCompanies(result) == IsSome(result) /\ IsSome(Get(result).companies)

CompaniesOf(result) ==
  IF HasCompanies(result) THEN Get(Get(result).companies) ELSE <<>>

\* BelowConfidence comparing with <= and without the test for an unset
\* threshold.
BelowConfidenceInclusive(company, filters) ==
  company.confidence_score <= filters.minConfidence

\* BelowConfidence with the threshold of the High Confidence statistic (70)
\* in place of the selected one.
BelowConfidenceSeventy(company, filters) ==
  filters.minConfidence > 0 /\ company.confidence_score < 70

\* The confidence test of the filter callback: TRUE when the item is dropped.
BelowConfidence(company, filters) ==
  filters.minConfidence > 0 /\ company.confidence_score < filters.minConfidence

\* company.industry.toLowerCase() throws when the item has no industry; the
\* callback gets that far when an industry filter is set and the confidence
\* test did not return first.
IndustryThrows(company, filters) ==
  /\ ~BelowConfidence(company, filters)
  /\ filters.industry # <<>>
  /\ ~IsSome(company.industry)

\* KeepsCompany with the lower bound of the first range (100) in the test
\* of the "1000+" range.
KeepsCompanyWrongBound(company, filters) ==
  LET empCount == company.employee_count
      truthy == IsSome(empCount) /\ Get(empCount) # 0
  IN  IF BelowConfidence(company, filters) THEN FALSE
      ELSE IF filters.industry # <<>>
              /\ ( ~IsSome(company.industry)
                   \/ ~Includes(ToLowerCase(Get(company.industry)),
                                ToLowerCase(filters.industry)) )
        THEN FALSE
      ELSE IF filters.employeeRange # ""
              /\ filters.employeeRange = "100-500" /\ truthy
              /\ (Get(empCount) < 100 \/ Get(empCount) > 500)
        THEN FALSE
      ELSE IF filters.employeeRange # ""
              /\ filters.employeeRange = "1000+" /\ truthy
              /\ Get(empCount) < 100
        THEN FALSE
      ELSE TRUE

\* The callback passed to searchResult.companies.filter.
KeepsCompany(company, filters) ==
  LET empCount == company.employee_count
      truthy == IsSome(empCount) /\ Get(empCount) # 0
  IN  IF BelowConfidence(company, filters) THEN FALSE
      ELSE IF filters.industry # <<>>
              /\ ( ~IsSome(company.industry)
                   \/ ~Includes(ToLowerCase(Get(company.industry)),
                                ToLowerCase(filters.industry)) )
        THEN FALSE
      ELSE IF filters.employeeRange # ""
              /\ filters.employeeRange = "100-500" /\ truthy
              /\ (Get(empCount) < 100 \/ Get(empCount) > 500)
        THEN FALSE
      ELSE IF filters.employeeRange # ""
              /\ filters.employeeRange = "1000+" /\ truthy
              /\ Get(empCount) < 1000
        THEN FALSE
      ELSE TRUE

\* getFilteredCompanies throws a TypeError.
FilterThrows(result, filters) ==
  \E i \in DOMAIN CompaniesOf(result) :
    IndustryThrows(CompaniesOf(result)[i], filters)

\* The list getFilteredCompanies returns (when it does not throw).
GetFilteredCompanies(result, filters) ==
  LET Keeps(company) == KeepsCompany(company, filters)
  IN  IF ~HasCompanies(result) THEN <<>>
      ELSE SeqFilter(Keeps, CompaniesOf(result))

filteredCompanies == GetFilteredCompanies(searchResult, selectedFilters)

\* Rendering the component throws; without an error boundary in the page
\* nothing of it is left to interact with.
RenderThrows == FilterThrows(searchResult, selectedFilters)

\* SearchDisabled without the test of isSearching.
SearchDisabledBlankOnly == Trim(query) = <<>>

\* The Search button's disabled attribute.
SearchDisabled == isSearching \/ Trim(query) = <<>>

\* The quick filter buttons are rendered inside the summary block.
QuickFiltersShown ==
  ~RenderThrows /\ IsSome(searchResult) /\ Len(CompaniesOf(searchResult)) > 0

ClearFiltersShown ==
  /\ QuickFiltersShown
  /\ \/ selectedFilters.minConfidence > 0
     \/ selectedFilters.industry # <<>>
     \/ selectedFilters.employeeRange # ""

\* The Cards / Table / Export CSV buttons.
ViewToggleShown ==
  /\ ~RenderThrows
  /\ IsSome(searchResult)
  /\ IsSome(Get(searchResult).table_data)
  /\ Len(filteredCompanies) > 0

\* The table is rendered in place of the cards.
TableViewShown ==
  /\ ~RenderThrows
  /\ IsSome(searchResult)
  /\ Len(filteredCompanies) > 0
  /\ viewMode = "table"
  /\ IsSome(Get(searchResult).table_data)

\* The indices of the rows the table keeps:
\* rows.filter((_, idx) => filteredCompanies.map(c => c.name)
\*                           .includes(searchResult.companies[idx]?.name))
TableRowsShown ==
  LET rows == Get(Get(searchResult).table_data).rows
      companies == CompaniesOf(searchResult)
      names == { filteredCompanies[i].name : i \in DOMAIN filteredCompanies }
  IN  { idx \in DOMAIN rows :
          idx \in DOMAIN companies /\ companies[idx].name \in names }

\* ------------------------------------------------------------------------
\* State machine
\* ------------------------------------------------------------------------

\* Campaign ids of CampaignManager (see the end of the module).
CampaignIds == {1, 2}

\* The record of an id no campaign has been created under.
NoCampaign == [status |-> "none", log |-> <<>>, error |-> "none"]

Init ==
  /\ query = <<>>
  /\ isSearching = FALSE
  /\ searchProgress = 0
  /\ searchResult = None
  /\ viewMode = "cards"
  /\ selectedFilters = DefaultFilters
  /\ calls = {}
  /\ lastEvent = "mount"
  /\ progressLog = <<>>
  /\ campaigns = [id \in CampaignIds |-> NoCampaign]

\* onChange of the query box.
SetQuery(q) ==
  /\ ~RenderThrows
  /\ ~isSearching
  /\ query' = q
  /\ lastEvent' = "setQuery"
  /\ UNCHANGED campaigns
  /\ UNCHANGED <<isSearching, searchProgress, progressLog, searchResult, viewMode,
                 selectedFilters, calls>>

handleExampleClick(exampleQuery) ==
  /\ ~RenderThrows
  /\ ~isSearching
  /\ query' = exampleQuery
  /\ lastEvent' = "exampleClick"
  /\ UNCHANGED campaigns
  /\ UNCHANGED <<isSearching, searchProgress, progressLog, searchResult, viewMode,
                 selectedFilters, calls>>

\* StartSearch without setSearchResult(null).
StartSearchKeepResult(userQuery) ==
  /\ isSearching' = TRUE
  /\ searchProgress' = 10
  /\ progressLog' = <<0, 10>>
  /\ searchResult' = searchResult
  /\ calls' = calls \cup {[pc |-> "fetch", userQuery |-> userQuery, status |-> ""]}

\* performIntelligentSearch up to `await fetch(...)`: the three resets,
\* setSearchProgress(10) and the request.  progressLog records the values
\* passed to setSearchProgress since the search was started, the ones a
\* later call in the same synchronous segment overwrites included.
StartSearch(userQuery) ==
  /\ isSearching' = TRUE
  /\ searchProgress' = 10
  /\ progressLog' = <<0, 10>>
  /\ searchResult' = None
  /\ calls' = calls \cup {[pc |-> "fetch", userQuery |-> userQuery, status |-> ""]}

\* handleSearch: returns at once for a blank query.
handleSearch ==
  IF Trim(query) = <<>>
    THEN UNCHANGED <<isSearching, searchProgress, progressLog, searchResult, calls>>
    ELSE StartSearch(query)

\* SearchClick with a button that is disabled only while searching and a
\* handler that does not look at the query.
SearchClickUnguarded ==
  /\ ~RenderThrows
  /\ lastEvent' = "searchClick"
  /\ UNCHANGED campaigns
  /\ IF isSearching
       THEN UNCHANGED <<isSearching, searchProgress, progressLog, searchResult, calls>>
       ELSE StartSearch(query)
  /\ UNCHANGED <<query, viewMode, selectedFilters>>

\* A click on the Search button; a disabled button does not run its handler.
SearchClick ==
  /\ ~RenderThrows
  /\ lastEvent' = "searchClick"
  /\ UNCHANGED campaigns
  /\ IF SearchDisabled
       THEN UNCHANGED <<isSearching, searchProgress, progressLog, searchResult, calls>>
       ELSE handleSearch
  /\ UNCHANGED <<query, viewMode, selectedFilters>>

\* Fail without the finally block.
FailNoFinally(call, message) ==
  /\ searchProgress' = 0
  /\ progressLog' = progressLog \o <<0>>
  /\ searchResult' = Some(ErrorResult(message))
  /\ isSearching' = isSearching
  /\ calls' = calls \ {call}

\* Fail without setSearchProgress(0).
FailKeepProgress(call, message) ==
  /\ searchProgress' = searchProgress
  /\ progressLog' = progressLog
  /\ searchResult' = Some(ErrorResult(message))
  /\ isSearching' = FALSE
  /\ calls' = calls \ {call}

\* Fail with the progress bar completed instead of reset.
FailProgressDone(call, message) ==
  /\ searchProgress' = 100
  /\ progressLog' = progressLog \o <<100>>
  /\ searchResult' = Some(ErrorResult(message))
  /\ isSearching' = FALSE
  /\ calls' = calls \ {call}

\* The catch block followed by the finally block.
Fail(call, message) ==
  /\ searchProgress' = 0
  /\ progressLog' = progressLog \o <<0>>
  /\ searchResult' = Some(ErrorResult(message))
  /\ isSearching' = FALSE
  /\ calls' = calls \ {call}

\* fetch rejects (network failure).
FetchRejects(call) ==
  /\ call.pc = "fetch"
  /\ Fail(call, "Failed to fetch")
  /\ lastEvent' = "fetchRejects"
  /\ UNCHANGED campaigns
  /\ UNCHANGED <<query, viewMode, selectedFilters>>

\* fetch resolves with response.ok: the function awaits response.json().
FetchOk(call) ==
  /\ call.pc = "fetch"
  /\ calls' = (calls \ {call}) \cup {[call EXCEPT !.pc = "json"]}
  /\ lastEvent' = "fetchOk"
  /\ UNCHANGED campaigns
  /\ UNCHANGED <<query, isSearching, searchProgress, progressLog, searchResult, viewMode,
                 selectedFilters>>

\* fetch resolves with a status that is not OK: the function awaits
\* response.json().catch(() => ({})).
FetchNotOk(call, status) ==
  /\ call.pc = "fetch"
  /\ calls' = (calls \ {call}) \cup {[call EXCEPT !.pc = "errorJson", !.status = status]}
  /\ lastEvent' = "fetchNotOk"
  /\ UNCHANGED campaigns
  /\ UNCHANGED <<query, isSearching, searchProgress, progressLog, searchResult, viewMode,
                 selectedFilters>>

\* The error body has been read: throw new Error(...), caught below.
ErrorBodyRead(call, body) ==
  /\ call.pc = "errorJson"
  /\ Fail(call, HttpErrorMessage(call.status, body))
  /\ lastEvent' = "errorBodyRead"
  /\ UNCHANGED campaigns
  /\ UNCHANGED <<query, viewMode, selectedFilters>>

\* response.json() rejects (the body is not JSON) or yields null, on which
\* reading data.people throws.
BodyUnusable(call, message) ==
  /\ call.pc = "json"
  /\ Fail(call, message)
  /\ lastEvent' = "bodyUnusable"
  /\ UNCHANGED campaigns
  /\ UNCHANGED <<query, viewMode, selectedFilters>>

\* BodyRead with the filters and the view reset for the new result.
BodyReadResetFilters(call, data) ==
  /\ call.pc = "json"
  /\ searchResult' = Some(ConvertPeople(data))
  /\ searchProgress' = 100
  /\ progressLog' = progressLog \o <<80, 100>>
  /\ isSearching' = FALSE
  /\ calls' = calls \ {call}
  /\ lastEvent' = "bodyRead"
  /\ selectedFilters' = DefaultFilters
  /\ viewMode' = "cards"
  /\ UNCHANGED campaigns
  /\ UNCHANGED query

\* response.json() yields data: setSearchProgress(80), the people
\* conversion, setSearchResult(data), setSearchProgress(100) and the finally
\* block.
BodyRead(call, data) ==
  /\ call.pc = "json"
  /\ searchResult' = Some(ConvertPeople(data))
  /\ searchProgress' = 100
  /\ progressLog' = progressLog \o <<80, 100>>
  /\ isSearching' = FALSE
  /\ calls' = calls \ {call}
  /\ lastEvent' = "bodyRead"
  /\ UNCHANGED campaigns
  /\ UNCHANGED <<query, viewMode, selectedFilters>>

\* MergeFilter without the spread of prev: setSelectedFilters(filter), the
\* keys the preset does not name falling back to their defaults.
MergeFilterReplace(prev, filter) ==
  [ minConfidence |-> IF "minConfidence" \in DOMAIN filter
                      THEN filter.minConfidence ELSE DefaultFilters.minConfidence,
    industry |-> IF "industry" \in DOMAIN filter
                 THEN filter.industry ELSE DefaultFilters.industry,
    employeeRange |-> IF "employeeRange" \in DOMAIN filter
                      THEN filter.employeeRange ELSE DefaultFilters.employeeRange ]

\* setSelectedFilters(prev => ({ ...prev, ...filter }))
MergeFilter(prev, filter) ==
  [ minConfidence |-> IF "minConfidence" \in DOMAIN filter
                      THEN filter.minConfidence ELSE prev.minConfidence,
    industry |-> IF "industry" \in DOMAIN filter
                 THEN filter.industry ELSE prev.industry,
    employeeRange |-> IF "employeeRange" \in DOMAIN filter
                      THEN filter.employeeRange ELSE prev.employeeRange ]

\* handleQuickFilter that also narrows the stored result to the items
\* passing the new filter.
handleQuickFilterInPlace(filter) ==
  /\ QuickFiltersShown
  /\ selectedFilters' = MergeFilter(selectedFilters, filter)
  /\ searchResult' =
       Some([Get(searchResult) EXCEPT !.companies =
         Some(GetFilteredCompanies(searchResult,
                                   MergeFilter(selectedFilters, filter)))])
  /\ lastEvent' = "quickFilter"
  /\ UNCHANGED campaigns
  /\ UNCHANGED <<query, isSearching, searchProgress, progressLog, viewMode, calls>>

handleQuickFilter(filter) ==
  /\ QuickFiltersShown
  /\ selectedFilters' = MergeFilter(selectedFilters, filter)
  /\ lastEvent' = "quickFilter"
  /\ UNCHANGED campaigns
  /\ UNCHANGED <<query, isSearching, searchProgress, progressLog, searchResult, viewMode,
                 calls>>

clearFilters ==
  /\ ClearFiltersShown
  /\ selectedFilters' = DefaultFilters
  /\ lastEvent' = "clearFilters"
  /\ UNCHANGED campaigns
  /\ UNCHANGED <<query, isSearching, searchProgress, progressLog, searchResult, viewMode,
                 calls>>

\* The Cards and Table buttons.
SetViewMode(mode) ==
  /\ ViewToggleShown
  /\ viewMode' = mode
  /\ lastEvent' = "setViewMode"
  /\ UNCHANGED campaigns
  /\ UNCHANGED <<query, isSearching, searchProgress, progressLog, searchResult,
                 selectedFilters, calls>>

\* exportTableData builds the CSV text from table_data and downloads it; it
\* writes no state of the component.
exportTableData ==
  /\ ViewToggleShown
  /\ lastEvent' = "exportCsv"
  /\ UNCHANGED campaigns
  /\ UNCHANGED <<query, isSearching, searchProgress, progressLog, searchResult, viewMode,
                 selectedFilters, calls>>

Next ==
  \/ \E q \in TypedQueries : SetQuery(q)
  \/ \E i \in DOMAIN exampleQueries : handleExampleClick(exampleQueries[i])
  \/ SearchClick
  \/ \E call \in calls : FetchRejects(call)
  \/ \E call \in calls : FetchOk(call)
  \/ \E call \in calls, status \in ErrorStatuses : FetchNotOk(call, status)
  \/ \E call \in calls, body \in ErrorBodies : ErrorBodyRead(call, body)
  \/ \E call \in calls, message \in {"Unexpected token", "Cannot read properties of null"} :
       BodyUnusable(call, message)
  \/ \E call \in calls, data \in Responses : BodyRead(call, data)
  \/ \E i \in DOMAIN quickFilters : handleQuickFilter(quickFilters[i].filter)
  \/ clearFilters
  \/ \E mode \in {"cards", "table"} : SetViewMode(mode)
  \/ exportTableData

Spec == Init /\ [][Next]_vars

\* The browser settles every request: the promise of fetch and the promise
\* of response.json() are eventually resolved or rejected, and the
\* continuation of performIntelligentSearch then runs.
CallStep ==
  \E call \in calls :
    \/ FetchRejects(call)
    \/ FetchOk(call)
    \/ \E status \in ErrorStatuses : FetchNotOk(call, status)
    \/ \E body \in ErrorBodies : ErrorBodyRead(call, body)
    \/ \E message \in {"Unexpected token", "Cannot read properties of null"} :
         BodyUnusable(call, message)
    \/ \E data \in Responses : BodyRead(call, data)

FairSpec == Spec /\ WF_vars(CallStep)

\* ------------------------------------------------------------------------
\* CampaignManager (specification section 4.7).  Its code is not part of
\* the page and the page does not call it; it is modelled from the
\* specification.  campaigns[id] holds the status of the campaign, the log
\* of the operations applied to it and the error of the last operation.
\* ------------------------------------------------------------------------

\* Largest number of operations logged over all campaigns.
MaxOps == 4

\* Requests POST /campaigns can receive.
CampaignRequests ==
  { [company_name |-> "Acme", job_titles |-> <<"qa">>, target_tools |-> <<"Intercom">>],
    [company_name |-> "", job_titles |-> <<"qa">>, target_tools |-> <<"Intercom">>],
    [company_name |-> "Acme", job_titles |-> <<>>, target_tools |-> <<"Intercom">>],
    [company_name |-> "Acme", job_titles |-> <<"qa">>, target_tools |-> <<>>] }

\* company_name non-empty, at least one job title and one target tool.
ValidRequest(request) ==
  /\ request.company_name # ""
  /\ request.job_titles # <<>>
  /\ request.target_tools # <<>>

RECURSIVE SumLogs(_)
SumLogs(ids) ==
  IF ids = {} THEN 0
  ELSE LET id == CHOOSE x \in ids : TRUE
       IN  Len(campaigns[id].log) + SumLogs(ids \ {id})

OpsLeft == SumLogs(CampaignIds) < MaxOps

\* The operation `op` on campaign id ends in `status` with `error`.
Logged(id, op, status, error) ==
  /\ campaigns' = [campaigns EXCEPT ![id] =
                     [status |-> status, log |-> Append(@.log, op), error |-> error]]
  /\ UNCHANGED pageVars

\* An operation on an id that is not known fails with NotFoundError.
NotFound(id) ==
  /\ campaigns' = [campaigns EXCEPT ![id].error = "NotFoundError"]
  /\ UNCHANGED pageVars

\* create(request): a valid request produces a draft under the next id.
create(request) ==
  /\ OpsLeft
  /\ \E id \in CampaignIds :
       /\ campaigns[id].status = "none"
       /\ \A other \in CampaignIds :
            campaigns[other].status = "none" => ~(other < id)
       /\ IF ValidRequest(request)
            THEN Logged(id, "create", "draft", "none")
            ELSE /\ campaigns' = [campaigns EXCEPT ![id].error = "ValidationError"]
                 /\ UNCHANGED pageVars

\* start(id): draft|paused -> running.
start(id) ==
  /\ OpsLeft
  /\ IF campaigns[id].status = "none" THEN NotFound(id)
     ELSE IF campaigns[id].status \in {"draft", "paused"}
       THEN Logged(id, "start", "running", "none")
     ELSE Logged(id, "start", campaigns[id].status, "InvalidStateError")

\* pause accepting a campaign that is paused already.
pauseIdempotent(id) ==
  /\ OpsLeft
  /\ IF campaigns[id].status = "none" THEN NotFound(id)
     ELSE IF campaigns[id].status \in {"running", "paused"}
       THEN Logged(id, "pause", "paused", "none")
     ELSE Logged(id, "pause", campaigns[id].status, "InvalidStateError")

\* pause(id): running -> paused.
pause(id) ==
  /\ OpsLeft
  /\ IF campaigns[id].status = "none" THEN NotFound(id)
     ELSE IF campaigns[id].status = "running"
       THEN Logged(id, "pause", "paused", "none")
     ELSE Logged(id, "pause", campaigns[id].status, "InvalidStateError")

\* The pipeline of a running campaign finishes without a fatal error.
complete(id) ==
  /\ OpsLeft
  /\ campaigns[id].status = "running"
  /\ Logged(id, "complete", "completed", "none")

\* The pipeline of a running campaign hits a fatal error.
fail(id) ==
  /\ OpsLeft
  /\ campaigns[id].status = "running"
  /\ Logged(id, "fail", "failed", "ExtractionError")

\* chat(id, message): permitted on every campaign that is not a draft.
chat(id) ==
  /\ OpsLeft
  /\ IF campaigns[id].status = "none" THEN NotFound(id)
     ELSE IF campaigns[id].status = "draft"
       THEN Logged(id, "chat", "draft", "InvalidStateError")
     ELSE Logged(id, "chat", campaigns[id].status, "none")

CampaignNext ==
  \/ \E request \in CampaignRequests : create(request)
  \/ \E id \in CampaignIds : start(id)
  \/ \E id \in CampaignIds : pause(id)
  \/ \E id \in CampaignIds : complete(id)
  \/ \E id \in CampaignIds : fail(id)
  \/ \E id \in CampaignIds : chat(id)

CampaignSpec == Init /\ [][CampaignNext]_vars

\* ------------------------------------------------------------------------
\* Properties
\* ------------------------------------------------------------------------

\* The result on display, when there is one.
Result == Get(searchResult)

\* C1: every search that is started eventually finishes with
\* isSearching = false, no request outstanding and searchResult set to a
\* result object, whichever way the request ends.
C1_SearchFinishes ==
  isSearching ~> (~isSearching /\ calls = {} /\ IsSome(searchResult))

\* A search has finished on a body that could not be processed.
C1_Witness ==
  /\ lastEvent = "bodyUnusable"
  /\ ~isSearching
  /\ IsSome(searchResult)
  /\ ~Result.success

\* A result object as the catch block builds it: not successful, with
\* exactly one event, of kind error.
IsErrorResult(result) ==
  /\ IsSome(result)
  /\ ~Get(result).success
  /\ Len(Get(result).search_events) = 1
  /\ Get(result).search_events[1].type = "error"

\* C2 as stated: once the Search button has been used with the empty string
\* as the query, the result is an unsuccessful one with exactly one error
\* event.
C2_EmptyQueryGivesErrorResult ==
  (lastEvent = "searchClick" /\ query = <<>> /\ ~isSearching)
    => IsErrorResult(searchResult)

\* C2 amended: using the Search button with the empty string as the query
\* starts no search: no request is sent and isSearching, searchProgress and
\* searchResult stay as they were; no request ever carries a blank query.
C2_EmptyQueryStartsNoSearch ==
  /\ [][ (lastEvent' = "searchClick" /\ query = <<>>)
           => UNCHANGED <<isSearching, searchProgress, searchResult, calls>> ]_vars
  /\ [](\A call \in calls : Trim(call.userQuery) # <<>>)

\* The Search button has been used with the empty query while an earlier
\* result was on display, and the result is still there.
C2_Witness ==
  /\ lastEvent = "searchClick"
  /\ query = <<>>
  /\ IsSome(searchResult)
  /\ ~isSearching

\* C3: a result that has been set changes only by a new search being
\* started, which replaces it by null; every other step, the quick filters,
\* clearFilters, the view buttons, the example buttons, typing and the CSV
\* export included, leaves it as it is.
C3_ResultImmutable ==
  [][ (IsSome(searchResult) /\ searchResult' # searchResult)
        => (lastEvent' = "searchClick" /\ isSearching' /\ searchResult' = None) ]_vars

\* A result is on display in table view with a filter set, and the CSV
\* export was the last thing done.
C3_Witness ==
  /\ lastEvent = "exportCsv"
  /\ viewMode = "table"
  /\ selectedFilters # DefaultFilters
  /\ IsSome(searchResult)

\* C4: when a successful response with a companies list and a people list
\* has been processed, every company of the response is among the items
\* shown under the default filters.
C4_CompaniesShown ==
  [][ \A data \in Responses :
        ( /\ \E call \in calls : BodyRead(call, data)
          /\ data.success
          /\ IsSome(data.companies)
          /\ IsSome(data.people)
          /\ selectedFilters' = DefaultFilters )
        => \A i \in DOMAIN Get(data.companies) :
             \E j \in DOMAIN GetFilteredCompanies(searchResult', selectedFilters') :
               GetFilteredCompanies(searchResult', selectedFilters')[j]
                 = Get(data.companies)[i] ]_vars

\* The result was produced under strict matching.
StrictResult ==
  /\ IsSome(searchResult)
  /\ IsSome(Result.search_criteria)
  /\ Get(Result.search_criteria).strict_matching

HasRequiredTools(item) ==
  Range(Get(Result.search_criteria).required_tools) \subseteq Range(item.tools_detected)

\* C5: under strict matching every item of the result, and every item of
\* the displayed list, has all required tools among its detected tools.
C5_StrictNoMissingTool ==
  StrictResult =>
    /\ \A i \in DOMAIN CompaniesOf(searchResult) :
         HasRequiredTools(CompaniesOf(searchResult)[i])
    /\ \A i \in DOMAIN filteredCompanies :
         HasRequiredTools(filteredCompanies[i])

\* A strict result with items converted from people is displayed through a
\* filter.
C5_Witness ==
  /\ StrictResult
  /\ selectedFilters.minConfidence = 80
  /\ Len(filteredCompanies) > 0
  /\ Len(CompaniesOf(searchResult)) > Len(filteredCompanies)
  /\ \A i \in DOMAIN filteredCompanies :
       IsSome(filteredCompanies[i].additional_data)

\* C6: with minConfidence = 0, industry = '' and employeeRange = '' the
\* displayed list is the companies list of the result, item by item.
C6_DefaultFiltersShowAll ==
  ( /\ selectedFilters.minConfidence = 0
    /\ selectedFilters.industry = <<>>
    /\ selectedFilters.employeeRange = "" )
  => filteredCompanies = CompaniesOf(searchResult)

\* The default filters are in force on a result whose items include one
\* with score 0 and no industry.
C6_Witness ==
  /\ selectedFilters = DefaultFilters
  /\ Len(CompaniesOf(searchResult)) >= 2
  /\ \E i \in DOMAIN CompaniesOf(searchResult) :
       /\ CompaniesOf(searchResult)[i].confidence_score = 0
       /\ ~IsSome(CompaniesOf(searchResult)[i].industry)
  /\ filteredCompanies = CompaniesOf(searchResult)

\* Every success or error event comes after an analyzing or searching event
\* of its stage.
EventsOrdered(events) ==
  \A i \in DOMAIN events :
    events[i].type \in {"success", "error"}
      => \E j \in 1..(i - 1) :
           /\ events[j].type \in {"analyzing", "searching"}
           /\ events[j].stage = events[i].stage

\* C7 as stated: the events of every result object are ordered in this way.
C7_AllEventsOrdered ==
  IsSome(searchResult) => EventsOrdered(Result.search_events)

\* C7 amended: the events of a result taken from the backend response are
\* ordered in this way; the result the page builds when a search fails has
\* exactly one event, of kind error, with nothing before it.
C7_BackendEventsOrdered ==
  IsSome(searchResult) =>
    IF searchProgress = 100
      THEN EventsOrdered(Result.search_events)
      ELSE /\ Len(Result.search_events) = 1
           /\ Result.search_events[1].type = "error"

\* A backend result with an error event is on display.
C7_Witness ==
  /\ IsSome(searchResult)
  /\ searchProgress = 100
  /\ \E i \in DOMAIN Result.search_events : Result.search_events[i].type = "error"

\* C8: while a search is running, searchResult is null.
C8_NoResultWhileSearching ==
  (isSearching \/ calls # {}) => searchResult = None

\* A search is running, started from a page that showed a result (only
\* then can a filter have been set).
C8_Witness ==
  /\ isSearching
  /\ searchResult = None
  /\ selectedFilters # DefaultFilters
  /\ \E call \in calls : call.pc = "json"

\* C9: every confidence score in a result, of the items displayed and of
\* the people they were copied from, is an integer from 0 to 100.
C9_ScoresInRange ==
  IsSome(searchResult) =>
    /\ \A i \in DOMAIN CompaniesOf(searchResult) :
         CompaniesOf(searchResult)[i].confidence_score \in 0..100
    /\ IsSome(Result.people) =>
         \A i \in DOMAIN Get(Result.people) :
           Get(Result.people)[i].confidence_score \in 0..100

\* Items converted from people with the scores 100 and 0 are in the result.
C9_Witness ==
  /\ IsSome(searchResult)
  /\ \E i, j \in DOMAIN CompaniesOf(searchResult) :
       /\ IsSome(CompaniesOf(searchResult)[i].additional_data)
       /\ CompaniesOf(searchResult)[i].confidence_score = 100
       /\ IsSome(CompaniesOf(searchResult)[j].additional_data)
       /\ CompaniesOf(searchResult)[j].confidence_score = 0

\* The item is the conversion of the person the claim C10 describes.
ConvertedFrom(item, person) ==
  /\ IsSome(item.additional_data)
  /\ Get(item.additional_data).is_person
  /\ item.name = person.name
  /\ item.confidence_score = person.confidence_score
  /\ item.search_source = person.search_source
  /\ item.tools_detected = (IF IsSome(person.tools_mentioned)
                            THEN Get(person.tools_mentioned) ELSE <<>>)
  /\ item.match_reasons = (IF IsSome(person.match_reasons)
                           THEN Get(person.match_reasons) ELSE <<>>)

\* The list has one item per person of the result, in the same order.
OnePerPerson(list) ==
  /\ Len(list) = Len(Get(Result.people))
  /\ \A i \in DOMAIN list : ConvertedFrom(list[i], Get(Result.people)[i])

\* C10 as stated: when a successful response with a people list has just
\* been processed, the displayed list has one converted item per person.
C10_DisplayedOnePerPerson ==
  ( /\ lastEvent = "bodyRead"
    /\ IsSome(searchResult)
    /\ Result.success
    /\ IsSome(Result.people) )
  => OnePerPerson(filteredCompanies)

\* C10 amended: the companies list of such a result has one converted item
\* per person, in the order of the people list; the displayed list is that
\* list under the default filters and a sublist of it under any other.
C10_CompaniesOnePerPerson ==
  (IsSome(searchResult) /\ searchProgress = 100 /\ IsSome(Result.people))
    => /\ OnePerPerson(CompaniesOf(searchResult))
       /\ selectedFilters = DefaultFilters
            => OnePerPerson(filteredCompanies)
       /\ Len(filteredCompanies) <= Len(CompaniesOf(searchResult))

\* Two people, one of them without tools and reasons, have been converted
\* and are displayed.
C10_Witness ==
  /\ IsSome(searchResult)
  /\ searchProgress = 100
  /\ IsSome(Result.people)
  /\ Len(Get(Result.people)) = 2
  /\ \E i \in DOMAIN Get(Result.people) :
       ~IsSome(Get(Result.people)[i].tools_mentioned)
  /\ filteredCompanies = CompaniesOf(searchResult)

\* C11: on one campaign, create, start, pause, start ends in running
\* without an error; create, start, pause, pause fails at the second pause
\* with InvalidStateError and leaves the campaign paused.
C11_CampaignLifecycle ==
  \A id \in CampaignIds :
    /\ campaigns[id].log = <<"create", "start", "pause", "start">>
         => campaigns[id].status = "running" /\ campaigns[id].error = "none"
    /\ campaigns[id].log = <<"create", "start", "pause", "pause">>
         => /\ campaigns[id].status = "paused"
            /\ campaigns[id].error = "InvalidStateError"

\* A campaign has been created, started and paused twice.
C11_Witness ==
  \E id \in CampaignIds :
    /\ campaigns[id].log = <<"create", "start", "pause", "pause">>
    /\ campaigns[id].status = "paused"

\* The steps that end a search in the catch block.
FailEvents == {"fetchRejects", "errorBodyRead", "bodyUnusable"}

\* C12: when a search has failed, searchProgress is 0 and the result is an
\* object with success = false, empty companies and people, the three
\* counters 0, a summary made of "Search failed: " and the error message,
\* and exactly one event, of type error.
C12_FailureResult ==
  lastEvent \in FailEvents =>
    /\ searchProgress = 0
    /\ IsSome(searchResult)
    /\ ~Result.success
    /\ Result.companies = Some(<<>>)
    /\ Result.people = Some(<<>>)
    /\ Result.criteria_matched = 0
    /\ Result.total_found = 0
    /\ Result.execution_time = 0
    /\ Len(Result.search_summary) = 2
    /\ Result.search_summary[1] = "Search failed: "
    /\ Result.search_summary[2] # ""
    /\ Len(Result.search_events) = 1
    /\ Result.search_events[1].type = "error"

\* A search has failed on a status that is not OK, with the detail of the
\* error body as the message.
C12_Witness ==
  /\ lastEvent = "errorBodyRead"
  /\ IsSome(searchResult)
  /\ Result.search_summary = <<"Search failed: ", "Extraction failed">>
  /\ searchProgress = 0

ProgressValues == {0, 10, 80, 100}

\* C13: searchProgress is only ever set to 0, 10, 80 or 100; the values
\* set in the course of one search do not decrease, but for the 0 a failure
\* sets; it is 100 only when no search is running and the result is the
\* processed response of the last search; it is 0 after a failed search.
C13_ProgressValues ==
  /\ searchProgress \in ProgressValues
  /\ \A i \in DOMAIN progressLog : progressLog[i] \in ProgressValues
  /\ \A i \in 1..(Len(progressLog) - 1) :
       \/ progressLog[i] <= progressLog[i + 1]
       \/ /\ i + 1 = Len(progressLog)
          /\ progressLog[i + 1] = 0
          /\ ~isSearching
          /\ IsErrorResult(searchResult)
  /\ searchProgress = 100 =>
       /\ ~isSearching
       /\ progressLog = <<0, 10, 80, 100>>
       /\ \E data \in Responses : searchResult = Some(ConvertPeople(data))
  /\ lastEvent \in FailEvents => searchProgress = 0

\* A search has run through all four values.
C13_Witness ==
  /\ progressLog = <<0, 10, 80, 100>>
  /\ searchProgress = 100
  /\ lastEvent = "bodyRead"

\* The employee count of the item is known and not 0.
KnownCount(item) ==
  IsSome(item.employee_count) /\ Get(item.employee_count) # 0

\* C14 as stated: with the range 100-500 selected every displayed item has
\* an employee count from 100 to 500, with 1000+ one of at least 1000.
C14_RangeFilterExact ==
  ~RenderThrows =>
    \A i \in DOMAIN filteredCompanies :
      /\ selectedFilters.employeeRange = "100-500"
           => /\ IsSome(filteredCompanies[i].employee_count)
              /\ Get(filteredCompanies[i].employee_count) >= 100
              /\ Get(filteredCompanies[i].employee_count) <= 500
      /\ selectedFilters.employeeRange = "1000+"
           => /\ IsSome(filteredCompanies[i].employee_count)
              /\ Get(filteredCompanies[i].employee_count) >= 1000

\* C14 amended: the ranges bind the displayed items whose employee count is
\* known and not 0; items whose employee_count is null or 0 (every item
\* converted from a person among them) are displayed under either range.
C14_RangeFilterKnownCounts ==
  ~RenderThrows =>
    /\ \A i \in DOMAIN filteredCompanies :
         KnownCount(filteredCompanies[i]) =>
           /\ selectedFilters.employeeRange = "100-500"
                => /\ Get(filteredCompanies[i].employee_count) >= 100
                   /\ Get(filteredCompanies[i].employee_count) <= 500
           /\ selectedFilters.employeeRange = "1000+"
                => Get(filteredCompanies[i].employee_count) >= 1000
    /\ ( /\ selectedFilters.employeeRange # ""
         /\ selectedFilters.minConfidence = 0
         /\ selectedFilters.industry = <<>> )
       => \A i \in DOMAIN CompaniesOf(searchResult) :
            ~KnownCount(CompaniesOf(searchResult)[i])
              => \E j \in DOMAIN filteredCompanies :
                   filteredCompanies[j] = CompaniesOf(searchResult)[i]

\* Under the range 1000+ an item with 5000 employees and one with 0 are
\* displayed.
C14_Witness ==
  /\ selectedFilters.employeeRange = "1000+"
  /\ \E i, j \in DOMAIN filteredCompanies :
       /\ filteredCompanies[i].employee_count = Some(5000)
       /\ filteredCompanies[j].employee_count = Some(0)

\* The item passes the three tests of the filters, stated one by one.
PassesFilters(item, filters) ==
  /\ item.confidence_score >= filters.minConfidence
  /\ \/ filters.industry = <<>>
     \/ /\ IsSome(item.industry)
        /\ Includes(ToLowerCase(Get(item.industry)), ToLowerCase(filters.industry))
  /\ \/ ~KnownCount(item)
     \/ /\ filters.employeeRange = "100-500"
           => Get(item.employee_count) \in 100..500
        /\ filters.employeeRange = "1000+"
           => Get(item.employee_count) >= 1000

\* C15: with minConfidence = m > 0 the displayed list consists of exactly
\* the items of the result with confidence_score >= m that pass the
\* industry and the employee-range filter, in their order.
C15_ConfidenceFilterExact ==
  (selectedFilters.minConfidence > 0 /\ ~RenderThrows) =>
    LET Passes(item) == PassesFilters(item, selectedFilters)
    IN  filteredCompanies = SeqFilter(Passes, CompaniesOf(searchResult))

\* Under High Confidence an item with score 100 is displayed and one with
\* score 75 is not.
C15_Witness ==
  /\ selectedFilters.minConfidence = 80
  /\ Len(filteredCompanies) = 1
  /\ filteredCompanies[1].confidence_score = 100
  /\ \E i \in DOMAIN CompaniesOf(searchResult) :
       CompaniesOf(searchResult)[i].confidence_score = 75

FilterKeys == {"minConfidence", "industry", "employeeRange"}

\* The new filters are the old ones with the keys of the preset overwritten.
PresetApplied(old, new, preset) ==
  \A k \in FilterKeys :
    new[k] = (IF k \in DOMAIN preset THEN preset[k] ELSE old[k])

\* C16: handleQuickFilter overwrites the keys of the preset and leaves the
\* other keys as they were, applying the preset again changes nothing, and
\* clearFilters sets minConfidence = 0, industry = '', employeeRange = ''.
C16_QuickFilterFrame ==
  [][ /\ \A i \in DOMAIN quickFilters :
           handleQuickFilter(quickFilters[i].filter)
             => /\ PresetApplied(selectedFilters, selectedFilters',
                                 quickFilters[i].filter)
                /\ MergeFilter(selectedFilters', quickFilters[i].filter)
                     = selectedFilters'
      /\ clearFilters
           => selectedFilters' =
                [minConfidence |-> 0, industry |-> <<>>, employeeRange |-> ""] ]_vars

\* Presets on the three keys have accumulated.
C16_Witness ==
  /\ lastEvent = "quickFilter"
  /\ selectedFilters.minConfidence = 80
  /\ selectedFilters.industry = <<"b", "2", "c">>
  /\ selectedFilters.employeeRange = "100-500"

\* C17: at most one request is outstanding, and one is outstanding exactly
\* while isSearching; while isSearching no step changes the query or sends
\* a request; a result is on display only when no request is outstanding.
C17_OneSearchAtATime ==
  /\ [](Cardinality(calls) <= 1)
  /\ [](isSearching <=> calls # {})
  /\ [](IsSome(searchResult) => calls = {})
  /\ [][ isSearching =>
           /\ query' = query
           /\ \A call \in calls' \ calls : call.pc # "fetch" ]_vars

\* The Search button was clicked while the body of the response was being
\* read, and the one request is still the only one.
C17_Witness ==
  /\ isSearching
  /\ lastEvent = "searchClick"
  /\ Cardinality(calls) = 1
  /\ \E call \in calls : call.pc = "json"

\* The indices of the items of the result that pass the current filters.
PassingIndices ==
  { idx \in DOMAIN CompaniesOf(searchResult) :
      PassesFilters(CompaniesOf(searchResult)[idx], selectedFilters) }

\* Row idx of the table is the row of item idx of the result.
RowsAligned ==
  LET rows == Get(Get(searchResult).table_data).rows
      companies == CompaniesOf(searchResult)
  IN  /\ Len(rows) = Len(companies)
      /\ \A idx \in DOMAIN rows : rows[idx].Name = companies[idx].name

\* C18: in table view, for a result whose rows are those of its items, the
\* rows shown are exactly the rows whose index is that of an item passing
\* the current filters, as many as there are cards.
C18_TableMatchesCards ==
  (TableViewShown /\ RowsAligned) =>
    /\ TableRowsShown = PassingIndices
    /\ Cardinality(TableRowsShown) = Len(filteredCompanies)

\* The text is empty or made of whitespace only.
IsBlank(text) == \A i \in DOMAIN text : text[i] \in WhiteSpace

\* C19: using Search with a query that is empty or consists only of
\* whitespace sends no request and leaves isSearching, searchProgress and
\* searchResult unchanged.
C19_BlankQueryNoEffect ==
  [][ (lastEvent' = "searchClick" /\ IsBlank(query))
        => /\ calls' = calls
           /\ UNCHANGED <<isSearching, searchProgress, searchResult>> ]_vars

\* Search has been used with a query of whitespace while an earlier result
\* was on display, and the result is still there.
C19_Witness ==
  /\ lastEvent = "searchClick"
  /\ query = <<" ", "\n">>
  /\ IsSome(searchResult)
  /\ ~isSearching
  /\ calls = {}

\* C20: computing the displayed list never faults, for every result a
\* search can set and every reachable state of the filters.
C20_FilterNeverThrows == ~RenderThrows

\* The steps that end a search, with its response or in the catch block.
FinishEvents == FailEvents \cup {"bodyRead"}

\* C21: no step that starts a search, is taken while one is running or
\* finishes one changes selectedFilters or viewMode; when a search has
\* finished, with a response or with a failure, the displayed list is the
\* list of the items of the new result that pass the filters still selected.
C21_SearchKeepsFiltersAndView ==
  /\ [][ (isSearching \/ isSearching')
           => UNCHANGED <<selectedFilters, viewMode>> ]_vars
  /\ []( (lastEvent \in FinishEvents /\ ~RenderThrows) =>
           LET Passes(item) == PassesFilters(item, selectedFilters)
           IN  filteredCompanies = SeqFilter(Passes, CompaniesOf(searchResult)) )

\* A search has finished under the table view and the High Confidence
\* preset, both chosen on an earlier result, and the preset has removed an
\* item of the new result.
C21_Witness ==
  /\ lastEvent = "bodyRead"
  /\ selectedFilters.minConfidence = 80
  /\ viewMode = "table"
  /\ Len(filteredCompanies) = 1
  /\ Len(CompaniesOf(searchResult)) = 2

====
